---- MODULE Spec2Model ----
(***************************************************************************)
(* EAPTestor (radius_eap_tester): configuration loading, the test catalog, *)
(* the per-test run (temporary artifact, external eapol_test process,      *)
(* outcome) and the run over all enabled tests, sequential or parallel.    *)
(***************************************************************************)
EXTENDS Integers, Sequences, FiniteSets, TLC

(* ------------------------------ bounds -------------------------------- *)

\* at most this many catalog methods are enabled in a document
MaxEnabled == 2

\* the methods a document of the model may enable: one certificate method,
\* one challenge method without path settings, one with a PAC file
MayEnable == {"tls", "peap_mschapv2", "eap_fast"}

(* --------------------------- plain values ----------------------------- *)

\* Python's None (result "error" field, unset locals)
None == "<None>"

\* a JSON string / integer value as loaded by json.load
JStr(s) == [type |-> "string", value |-> s]
JInt(i) == [type |-> "integer", value |-> i]

\* EAPTestor.EAPOL_TEST_BIN
EAPOL_TEST_BIN == "eapol_test"

\* the fixed name of the report document
RESULTS_FILE == "test_results.json"

\* args.config
CONFIG_PATH == "conf/config.json"

\* the catalog with its last entry first
Catalog_Reordered == <<"eap_fast", "tls", "ttls_tls", "peap_tls",
                       "peap_mschapv2", "ttls_md5", "ttls_mschapv2">>

\* the catalog of define_tests, in its order
Catalog == <<"tls", "ttls_tls", "peap_tls", "peap_mschapv2", "ttls_md5",
             "ttls_mschapv2", "eap_fast">>

Methods == {Catalog[i] : i \in 1..Len(Catalog)}

\* the settings keys run_test validates as paths, in the order of its loop
PathKeys == <<"certificate_file", "private_key_file", "ca_cert", "pac_file">>

\* the server keys load_config overrides from the environment
SensitiveKeys == <<"secretkey", "private_key_password", "password">>

\* the names tempfile.NamedTemporaryFile may pick: one more than the tests
\* that can hold an artifact at a time, so that a fresh name always exists
TempNames == {"/tmp/tmp" \o ToString(i) \o ".conf" : i \in 1..(MaxEnabled + 1)}

\* certificate, key and PAC files that exist on disk before the run
UserFiles == {"/certs/client.pem", "/certs/client.key", "/certs/ca.pem"}

(* ------------------------ CONFIG_SCHEMA, validate ---------------------- *)

\* CONFIG_SCHEMA: required keys of the server object and their types
ServerRequired == {"ipaddress", "port", "secretkey", "private_key_password",
                   "identity", "password"}

\* the schema with every server property declared a string
ServerType_AllStrings(key) == "string"

ServerType(key) == IF key = "port" THEN "integer" ELSE "string"

\* #/definitions/eap_method: an object with "enabled" (boolean) and "config"
EapMethodValid(m) ==
    /\ {"enabled", "config"} \subseteq DOMAIN m
    /\ m.enabled \in BOOLEAN

\* jsonschema.validate(instance=config, schema=CONFIG_SCHEMA) raises nothing
SchemaValid(doc) ==
    /\ {"server", "eap_methods"} \subseteq DOMAIN doc
    /\ ServerRequired \subseteq DOMAIN doc.server
    /\ \A k \in DOMAIN doc.server :
          k \in ServerRequired => doc.server[k].type = ServerType(k)
    /\ Methods \subseteq DOMAIN doc.eap_methods
    /\ \A n \in DOMAIN doc.eap_methods :
          n \in Methods => EapMethodValid(doc.eap_methods[n])

(* ----------------------------- documents ------------------------------ *)

\* generate_config_template: the settings of each method
TemplateSettings(n) ==
    IF n \in {"tls", "ttls_tls", "peap_tls"}
    THEN [certificate_file |-> "", private_key_file |-> "",
          private_key_passwd |-> "", ca_cert |-> ""]
    ELSE IF n \in {"peap_mschapv2", "ttls_mschapv2"} THEN [mschapv2 |-> TRUE]
    ELSE IF n = "ttls_md5" THEN [md5 |-> TRUE]
    ELSE [pac_file |-> ""]

\* generate_config_template: the server section
TemplateServer ==
    [ipaddress |-> JStr("192.168.1.1"), port |-> JInt(1812),
     secretkey |-> JStr("your_secret"),
     private_key_password |-> JStr("your_key_password"),
     identity |-> JStr("testuser"), password |-> JStr("testpass")]

\* the template with its port written as a string
Template_PortString ==
    [server |-> [TemplateServer EXCEPT !.port = JStr("1812")],
     eap_methods |-> [n \in Methods |->
                        [enabled |-> FALSE, config |-> TemplateSettings(n)]]]

\* generate_config_template: the whole document
Template ==
    [server |-> TemplateServer,
     eap_methods |-> [n \in Methods |->
                        [enabled |-> FALSE, config |-> TemplateSettings(n)]]]

\* the settings an operator may have filled in for a method
SettingsChoices(n) ==
    IF n \in {"tls", "ttls_tls", "peap_tls"}
    THEN { [certificate_file |-> "/certs/client.pem",
            private_key_file |-> "/certs/client.key",
            private_key_passwd |-> "stale", ca_cert |-> "/certs/ca.pem"],
           [certificate_file |-> "/nope",
            private_key_file |-> "/certs/client.key",
            private_key_passwd |-> "", ca_cert |-> "/certs/ca.pem"],
           [certificate_file |-> "",
            private_key_file |-> "/missing.key",
            private_key_passwd |-> "", ca_cert |-> "/missing-ca.pem"] }
    ELSE IF n = "eap_fast"
    THEN { [pac_file |-> ""], [pac_file |-> "/nope.pac"] }
    ELSE { TemplateSettings(n) }

\* the settings of the enabled methods E of a document, one choice each
FilledSettings(E) ==
    { cfg \in [E -> UNION {SettingsChoices(n) : n \in E}] :
        \A n \in E : cfg[n] \in SettingsChoices(n) }

\* the schema-valid documents of the model: the template with the methods E
\* enabled and their settings filled in
DocWith(E, cfg) ==
    [server |-> TemplateServer,
     eap_methods |-> [n \in Methods |->
         [enabled |-> n \in E,
          config |-> IF n \in E THEN cfg[n] ELSE TemplateSettings(n)]]]

ValidDocs ==
    UNION { {DocWith(E, cfg) : cfg \in FilledSettings(E)} :
            E \in {S \in SUBSET MayEnable : Cardinality(S) <= MaxEnabled} }

\* a valid document with one runnable test, from which the invalid ones are cut
RunnableDoc ==
    DocWith({"peap_mschapv2"}, [n \in {"peap_mschapv2"} |-> [mschapv2 |-> TRUE]])

\* documents the schema rejects: a server key missing, the port a string,
\* a catalog method missing, a method without its "enabled" flag
InvalidDocs ==
    { [RunnableDoc EXCEPT !.server =
          [k \in ServerRequired \ {"password"} |-> RunnableDoc.server[k]]],
      [RunnableDoc EXCEPT !.server.port = JStr("1812")],
      [RunnableDoc EXCEPT !.eap_methods =
          [n \in Methods \ {"eap_fast"} |-> RunnableDoc.eap_methods[n]]],
      [RunnableDoc EXCEPT !.eap_methods.peap_mschapv2 =
          [config |-> [mschapv2 |-> TRUE]]] }

\* no file at the configuration path
NoFile == [absent |-> TRUE]

\* the process environment: the EAPTESTOR_* variables that are set
Envs ==
    { [v \in {} |-> ""],
      [EAPTESTOR_PRIVATE_KEY_PASSWORD |-> "env_key_password",
       EAPTESTOR_SECRETKEY |-> ""] }

(* ------------------------------ load_config ---------------------------- *)

\* the variable name built without key.upper()
EnvName_NoUpper(key) == "EAPTESTOR_" \o key

\* key.upper() for the three sensitive keys
EnvName(key) ==
    IF key = "secretkey" THEN "EAPTESTOR_SECRETKEY"
    ELSE IF key = "private_key_password" THEN "EAPTESTOR_PRIVATE_KEY_PASSWORD"
    ELSE "EAPTESTOR_PASSWORD"

\* os.getenv(name): None when the variable is not set
Getenv(e, name) == IF name \in DOMAIN e THEN e[name] ELSE None

\* load_config, lines 91-98: the override loop over the sensitive keys
ApplyEnv(doc, e) ==
    [doc EXCEPT !.server =
        [k \in DOMAIN doc.server |->
            IF /\ \E i \in 1..Len(SensitiveKeys) : SensitiveKeys[i] = k
               /\ Getenv(e, EnvName(k)) # None
               /\ Getenv(e, EnvName(k)) # ""
            THEN JStr(Getenv(e, EnvName(k)))
            ELSE doc.server[k]]]

\* load_config: "ok" and the configuration, or the exception it raises
load_config(file, e) ==
    IF file = NoFile
    THEN [raised |-> "FileNotFoundError"]
    ELSE IF ~SchemaValid(file)
    THEN [raised |-> "ValueError"]
    ELSE [raised |-> None, config |-> ApplyEnv(file, e)]

(* ----------------------------- define_tests ---------------------------- *)

\* every catalog entry flagged as requiring the password
RequiresPassword_Always(n) == TRUE

\* the constant requires_password flag of each catalog entry
RequiresPassword(n) ==
    n \in {"peap_mschapv2", "ttls_md5", "ttls_mschapv2", "eap_fast"}

\* define_tests: one EAPTest per catalog entry; EAPTest.config is the very
\* mapping held in config["eap_methods"][name]["config"], read through name
define_tests(cfg) ==
    [i \in 1..Len(Catalog) |->
        [name |-> Catalog[i],
         requires_password |-> RequiresPassword(Catalog[i]),
         enabled |-> cfg.eap_methods[Catalog[i]].enabled]]

\* run_all_tests, line 136 without its filter: every test of the catalog
EnabledFrom_NoFilter(ts, i) == [j \in 1..(Len(ts) - i + 1) |-> ts[i + j - 1].name]

\* run_all_tests, line 136: the enabled tests in catalog order
RECURSIVE EnabledFrom(_, _)
EnabledFrom(ts, i) ==
    IF i > Len(ts) THEN <<>>
    ELSE IF ts[i].enabled THEN <<ts[i].name>> \o EnabledFrom(ts, i + 1)
    ELSE EnabledFrom(ts, i + 1)

enabled_tests_of(ts) == EnabledFrom(ts, 1)

(* -------------------------------- state -------------------------------- *)

VARIABLES
    cfgFile,        \* the document at the configuration path, or NoFile
    env,            \* the process environment
    dry_run,        \* args.dry_run / EAPTestor.dry_run
    mode,           \* "sequential" / "parallel": main calling run_all_tests;
                    \* "direct": a caller of EAPTestor.run_test, test by test
    mainPc,         \* where main / run_all_tests is
    config,         \* EAPTestor.config, the mapping load_config returned
    tests,          \* EAPTestor.tests
    enabled_tests,  \* run_all_tests: the names of the enabled tests, in order
    idx,            \* the test the loop (or the result iterator) is at
    results,        \* run_all_tests: results
    ret,            \* what run_all_tests returned
    export,         \* the attempt to write the report document
    pc,             \* per test: where its run_test call is
    temp_conf_path, \* per test: run_test's temp_conf_path
    exc,            \* per test: the exception propagating out of run_test
    status,         \* per test: run_test's status / return value
    spawned,        \* per test: the command lines of the processes started
    proc,           \* per test: what subprocess.run came back with
    fs,             \* the filesystem: path -> content of the files that exist
    log             \* what was logged or printed: <<kind, subject>>

vars == <<cfgFile, env, dry_run, mode, mainPc, config, tests, enabled_tests,
          idx, results, ret, export, pc, temp_conf_path, exc, status, spawned,
          proc, fs, log>>

inputVars == <<cfgFile, env, dry_run, mode>>
testVars == <<pc, temp_conf_path, exc, status, spawned, proc>>
loopVars == <<enabled_tests, idx, results, ret, export>>

\* file contents: what json.dump wrote, a write that broke off, a user file
Dumped(obj) == [json |-> obj]
Partial == [partial |-> TRUE]
UserFile == [pem |-> TRUE]

\* before load_config has returned there is no configuration
NoConfig == [absent |-> TRUE]

\* subprocess.run has not come back: nothing, an exception raised before a
\* process ran, or a completed process
NoProc == [kind |-> "none"]
Failed(exception) == [kind |-> exception]
Completed(returncode, stderr) ==
    [kind |-> "completed", returncode |-> returncode, stderr |-> stderr]

\* run_test's status before it is assigned
NoStatus == [name |-> None, status |-> None, error |-> None]

Init ==
    /\ cfgFile \in ValidDocs \cup InvalidDocs \cup {NoFile}
    /\ env \in Envs
    /\ dry_run \in BOOLEAN
    /\ mode \in {"sequential", "parallel", "direct"}
    /\ mainPc = "start"
    /\ config = NoConfig
    /\ tests = <<>>
    /\ enabled_tests = <<>>
    /\ idx = 1
    /\ results = <<>>
    /\ ret = <<>>
    /\ export = "none"
    /\ pc = [t \in Methods |-> "idle"]
    /\ temp_conf_path = [t \in Methods |-> None]
    /\ exc = [t \in Methods |-> None]
    /\ status = [t \in Methods |-> NoStatus]
    /\ spawned = [t \in Methods |-> <<>>]
    /\ proc = [t \in Methods |-> NoProc]
    /\ fs = [p \in UserFiles |-> UserFile]
    /\ log = {}

(* --------------------------------- main -------------------------------- *)

\* main, lines 35-37: load_config and EAPTestor(config, dry_run) succeed
LoadConfigOk ==
    /\ mainPc = "start"
    /\ load_config(cfgFile, env).raised = None
    /\ config' = load_config(cfgFile, env).config
    /\ tests' = define_tests(config')
    /\ mainPc' = "loaded"
    /\ UNCHANGED <<inputVars, loopVars, testVars, fs, log>>

\* main, lines 36 and 39-42: load_config raises, main exits with status 1
LoadConfigFails ==
    /\ mainPc = "start"
    /\ load_config(cfgFile, env).raised # None
    /\ mainPc' = "exit1"
    /\ log' = log \cup {<<"error", load_config(cfgFile, env).raised>>}
    /\ UNCHANGED <<inputVars, config, tests, loopVars, testVars, fs>>

\* show_config: the server keys it prints and the enabled methods
show_config ==
    {<<"print", k>> : k \in DOMAIN config.server \ {"private_key_password",
                                                     "password", "secretkey"}}
        \cup {<<"print", "EAP methods enabled">>}

\* run_all_tests, lines 133-140: no test enabled, warn and return []
RunAllTestsNoneEnabled ==
    /\ mode \in {"sequential", "parallel"}
    /\ mainPc = "loaded"
    /\ enabled_tests_of(tests) = <<>>
    /\ log' = log \cup show_config \cup {<<"warning", "No EAP methods enabled">>}
    /\ ret' = results
    /\ mainPc' = "returned"
    /\ UNCHANGED <<inputVars, config, tests, enabled_tests, idx, results,
                   export, testVars, fs>>

\* run_all_tests, lines 133-149: filter the enabled tests and start on them
RunAllTestsBegin ==
    /\ mode \in {"sequential", "parallel"}
    /\ mainPc = "loaded"
    /\ enabled_tests_of(tests) # <<>>
    /\ enabled_tests' = enabled_tests_of(tests)
    /\ log' = log \cup show_config
    /\ mainPc' = "running"
    /\ UNCHANGED <<inputVars, config, tests, idx, results, ret, export,
                   testVars, fs>>

(* ------------------------------- run_test ------------------------------ *)

\* test.config: the settings mapping of the test, held in the configuration
Settings(t) == config.eap_methods[t].config

\* the EAPTest of a name
TestOf(t) == CHOOSE x \in {tests[i] : i \in 1..Len(tests)} : x.name = t

\* os.path.exists
Exists(p) == p \in DOMAIN fs

\* line 87 with the existence test inverted
BadPath_Inverted(t, key) ==
    /\ key \in DOMAIN Settings(t)
    /\ Settings(t)[key] # ""
    /\ Exists(Settings(t)[key])

\* run_test, line 87: the condition under which a settings key is rejected
BadPath(t, key) ==
    /\ key \in DOMAIN Settings(t)
    /\ Settings(t)[key] # ""
    /\ ~Exists(Settings(t)[key])

\* run_test, lines 86-89: the first key of the loop that is rejected, or 0
FirstBadKey(t) ==
    IF \E i \in 1..Len(PathKeys) : BadPath(t, PathKeys[i])
    THEN CHOOSE i \in 1..Len(PathKeys) :
            /\ BadPath(t, PathKeys[i])
            /\ \A j \in 1..(i - 1) : ~BadPath(t, PathKeys[j])
    ELSE 0

\* run_test, line 89: the error detail of a rejected path
InvalidPathError(t, key) ==
    "Invalid " \o key \o ": " \o Settings(t)[key] \o " does not exist"

\* a result mapping {"name", "status", "error"}
Result(t, st, err) == [name |-> t, status |-> st, error |-> err]

\* line 36 leaving the flag at its default
SelfDryRun_Default == FALSE

\* EAPTestor.__init__, line 36: self.dry_run is the dry_run argument
SelfDryRun == dry_run

\* run_test may be entered for t: by the sequential loop, by a pool worker
\* taking the pending future, or by the direct caller
CanStart(t) ==
    /\ pc[t] = "idle"
    /\ \/ /\ mode = "sequential"
          /\ mainPc = "running"
          /\ idx <= Len(enabled_tests)
          /\ enabled_tests[idx] = t
       \/ /\ mode = "parallel"
          /\ mainPc = "running"
          /\ \E i \in 1..Len(enabled_tests) : enabled_tests[i] = t
       \/ /\ mode = "direct"
          /\ mainPc = "loaded"
          /\ idx <= Len(Catalog)
          /\ Catalog[idx] = t

\* run_test, lines 77-79: a disabled test
RunTestSkipped(t) ==
    /\ CanStart(t)
    /\ ~TestOf(t).enabled
    /\ status' = [status EXCEPT ![t] = Result(t, "skipped", None)]
    /\ pc' = [pc EXCEPT ![t] = "returned"]
    /\ log' = log \cup {<<"info skipping", t>>}
    /\ UNCHANGED <<inputVars, mainPc, config, tests, loopVars,
                   temp_conf_path, exc, spawned, proc, fs>>

\* run_test, lines 81-83: dry run
RunTestDryRun(t) ==
    /\ CanStart(t)
    /\ TestOf(t).enabled
    /\ SelfDryRun
    /\ status' = [status EXCEPT ![t] = Result(t, "dry_run", None)]
    /\ pc' = [pc EXCEPT ![t] = "returned"]
    /\ log' = log \cup {<<"info dry run", t>>}
    /\ UNCHANGED <<inputVars, mainPc, config, tests, loopVars,
                   temp_conf_path, exc, spawned, proc, fs>>

\* run_test, lines 85-89: a settings path that does not exist
RunTestInvalidPath(t) ==
    /\ CanStart(t)
    /\ TestOf(t).enabled
    /\ ~SelfDryRun
    /\ FirstBadKey(t) # 0
    /\ status' = [status EXCEPT ![t] =
           Result(t, "failed", InvalidPathError(t, PathKeys[FirstBadKey(t)]))]
    /\ pc' = [pc EXCEPT ![t] = "returned"]
    /\ log' = log \cup {<<"error invalid path", t>>}
    /\ UNCHANGED <<inputVars, mainPc, config, tests, loopVars,
                   temp_conf_path, exc, spawned, proc, fs>>

\* the tests that pass lines 77-89 and go on to create the artifact
Runnable(t) ==
    /\ CanStart(t)
    /\ TestOf(t).enabled
    /\ ~SelfDryRun
    /\ FirstBadKey(t) = 0

\* a name chosen without the exclusive-creation test
FreshNames_Any == TempNames

\* tempfile.NamedTemporaryFile(delete=False): a name no existing file has
FreshNames == TempNames \ DOMAIN fs

\* the filesystem with content written to path
WriteFile(path, content) ==
    [p \in DOMAIN fs \cup {path} |-> IF p = path THEN content ELSE fs[p]]

\* the filesystem without path
RemoveFile(path) == [p \in DOMAIN fs \ {path} |-> fs[p]]

\* run_test, lines 91-94: the artifact is created and the settings dumped
RunTestCreate(t) ==
    /\ Runnable(t)
    /\ \E path \in FreshNames :
          /\ temp_conf_path' = [temp_conf_path EXCEPT ![t] = path]
          /\ fs' = WriteFile(path, Dumped(Settings(t)))
    /\ pc' = [pc EXCEPT ![t] = "created"]
    /\ UNCHANGED <<inputVars, mainPc, config, tests, loopVars, exc, status,
                   spawned, proc, log>>

\* run_test, lines 91-94: the artifact cannot be created (no file), or the
\* dump into it fails (the file stays, partly written); OSError propagates
RunTestCreateFails(t) ==
    /\ Runnable(t)
    /\ \/ UNCHANGED <<fs, temp_conf_path>>
       \/ \E path \in FreshNames :
             /\ temp_conf_path' = [temp_conf_path EXCEPT ![t] = path]
             /\ fs' = WriteFile(path, Partial)
    /\ exc' = [exc EXCEPT ![t] = "OSError"]
    /\ pc' = [pc EXCEPT ![t] = "raised"]
    /\ UNCHANGED <<inputVars, mainPc, config, tests, loopVars, status,
                   spawned, proc, log>>

\* update_key leaving the settings as they are
WithPassphrase_Unchanged(settings) == settings

\* update_key, line 68: config_data["private_key_passwd"] = the server's
\* private_key_password; config_data is test.config itself
WithPassphrase(settings) ==
    [k \in DOMAIN settings \cup {"private_key_passwd"} |->
        IF k = "private_key_passwd"
        THEN config.server.private_key_password.value
        ELSE settings[k]]

\* the configuration after line 68 ran for test t
ConfigAfterUpdate(t) ==
    [config EXCEPT !.eap_methods[t].config = WithPassphrase(Settings(t))]

\* run_test, line 96 / update_key, lines 64-70: the passphrase is set in the
\* settings and the artifact rewritten
UpdateKey(t) ==
    /\ pc[t] = "created"
    /\ config' = ConfigAfterUpdate(t)
    /\ fs' = WriteFile(temp_conf_path[t], Dumped(WithPassphrase(Settings(t))))
    /\ pc' = [pc EXCEPT ![t] = "ready"]
    /\ log' = log \cup {<<"info running", t>>}
    /\ UNCHANGED <<inputVars, mainPc, tests, loopVars, temp_conf_path, exc,
                   status, spawned, proc>>

\* update_key, lines 69-73: opening the artifact fails (it keeps its content)
\* or the dump fails (it is left partly written); the error is logged and
\* raised again, and run_test has no handler around line 96
UpdateKeyFails(t) ==
    /\ pc[t] = "created"
    /\ config' = ConfigAfterUpdate(t)
    /\ \/ fs' = fs
       \/ fs' = WriteFile(temp_conf_path[t], Partial)
    /\ exc' = [exc EXCEPT ![t] = "OSError"]
    /\ pc' = [pc EXCEPT ![t] = "raised"]
    /\ log' = log \cup {<<"error update failed", t>>}
    /\ UNCHANGED <<inputVars, mainPc, tests, loopVars, temp_conf_path,
                   status, spawned, proc>>

\* run_test, lines 99-110: the argument list
Cmd(t) ==
    <<EAPOL_TEST_BIN,
      "-c", temp_conf_path[t],
      "-a", config.server.ipaddress.value,
      "-p", ToString(config.server.port.value),
      "-s", config.server.secretkey.value,
      "-r", "0",
      "-M", config.server.identity.value,
      "-o">>
    \o (IF TestOf(t).requires_password
        THEN <<"-P", config.server.password.value>>
        ELSE <<>>)

\* run_test, lines 112-114: subprocess.run starts the process
Spawn(t) ==
    /\ pc[t] = "ready"
    /\ ~SelfDryRun
    /\ spawned' = [spawned EXCEPT ![t] = Append(spawned[t], Cmd(t))]
    /\ pc' = [pc EXCEPT ![t] = "running"]
    /\ UNCHANGED <<inputVars, mainPc, config, tests, loopVars, temp_conf_path,
                   exc, status, proc, fs, log>>

\* run_test, lines 114 and 120-122: the executable is not found
SpawnNotFound(t) ==
    /\ pc[t] = "ready"
    /\ ~SelfDryRun
    /\ proc' = [proc EXCEPT ![t] = Failed("FileNotFoundError")]
    /\ status' = [status EXCEPT ![t] =
                     Result(t, "failed", EAPOL_TEST_BIN \o " not found")]
    /\ pc' = [pc EXCEPT ![t] = "finally"]
    /\ log' = log \cup {<<"error not found", t>>}
    /\ UNCHANGED <<inputVars, mainPc, config, tests, loopVars, temp_conf_path,
                   exc, spawned, fs>>

\* run_test, line 114: subprocess.run raises another OSError (PermissionError);
\* neither except clause matches, the finally block runs with it pending
SpawnOSError(t) ==
    /\ pc[t] = "ready"
    /\ ~SelfDryRun
    /\ proc' = [proc EXCEPT ![t] = Failed("PermissionError")]
    /\ exc' = [exc EXCEPT ![t] = "PermissionError"]
    /\ pc' = [pc EXCEPT ![t] = "finally"]
    /\ UNCHANGED <<inputVars, mainPc, config, tests, loopVars, temp_conf_path,
                   status, spawned, fs, log>>

\* the exit statuses and stderr texts of the external process in the model
ProcessOutcomes == {Completed(0, ""), Completed(1, "auth rejected")}

\* subprocess.run without check=True: no exit status raises
RaisesCalledProcessError_Unchecked(returncode) == FALSE

\* subprocess.run(..., check=True), line 114: CalledProcessError is raised
\* for a non-zero exit status
RaisesCalledProcessError(returncode) == returncode # 0

\* run_test, lines 114-116: the process exits, subprocess.run returns
ProcessExitZero(t) ==
    /\ pc[t] = "running"
    /\ \E out \in ProcessOutcomes :
          /\ ~RaisesCalledProcessError(out.returncode)
          /\ proc' = [proc EXCEPT ![t] = out]
    /\ status' = [status EXCEPT ![t] =
           Result(t, IF ~SelfDryRun THEN "success" ELSE "dry_run", None)]
    /\ pc' = [pc EXCEPT ![t] = "finally"]
    /\ log' = log \cup {<<"info completed", t>>}
    /\ UNCHANGED <<inputVars, mainPc, config, tests, loopVars, temp_conf_path,
                   exc, spawned, fs>>

\* run_test, lines 114 and 117-119: the process exits, CalledProcessError
\* is raised and caught, its stderr is the error detail
ProcessExitNonZero(t) ==
    /\ pc[t] = "running"
    /\ \E out \in ProcessOutcomes :
          /\ RaisesCalledProcessError(out.returncode)
          /\ proc' = [proc EXCEPT ![t] = out]
          /\ status' = [status EXCEPT ![t] = Result(t, "failed", out.stderr)]
    /\ pc' = [pc EXCEPT ![t] = "finally"]
    /\ log' = log \cup {<<"error test failed", t>>}
    /\ UNCHANGED <<inputVars, mainPc, config, tests, loopVars, temp_conf_path,
                   exc, spawned, fs>>

\* where run_test goes after its finally block: it returns status, or the
\* pending exception leaves it
AfterFinally(t) == IF exc[t] = None THEN "returned" ELSE "raised"

\* run_test, lines 123-125 and 129: os.unlink removes the artifact
Unlink(t) ==
    /\ pc[t] = "finally"
    /\ fs' = RemoveFile(temp_conf_path[t])
    /\ pc' = [pc EXCEPT ![t] = AfterFinally(t)]
    /\ UNCHANGED <<inputVars, mainPc, config, tests, loopVars, temp_conf_path,
                   exc, status, spawned, proc, log>>

\* os.unlink's failure leaving run_test as an exception
UnlinkFails_Raises(t) ==
    /\ pc[t] = "finally"
    /\ exc' = [exc EXCEPT ![t] = "OSError"]
    /\ pc' = [pc EXCEPT ![t] = "raised"]
    /\ UNCHANGED <<inputVars, mainPc, config, tests, loopVars, temp_conf_path,
                   status, spawned, proc, fs, log>>

\* run_test, lines 124-129: os.unlink fails, a warning is logged
UnlinkFails(t) ==
    /\ pc[t] = "finally"
    /\ log' = log \cup {<<"warning delete failed", t>>}
    /\ pc' = [pc EXCEPT ![t] = AfterFinally(t)]
    /\ UNCHANGED <<inputVars, mainPc, config, tests, loopVars, temp_conf_path,
                   exc, status, spawned, proc, fs>>

RunTestStep(t) ==
    \/ RunTestSkipped(t)
    \/ RunTestDryRun(t)
    \/ RunTestInvalidPath(t)
    \/ RunTestCreate(t)
    \/ RunTestCreateFails(t)
    \/ UpdateKey(t)
    \/ UpdateKeyFails(t)
    \/ Spawn(t)
    \/ SpawnNotFound(t)
    \/ SpawnOSError(t)
    \/ ProcessExitZero(t)
    \/ ProcessExitNonZero(t)
    \/ Unlink(t)
    \/ UnlinkFails(t)

(* ---------------------------- run_all_tests ---------------------------- *)

\* the names in a sequence of names
Names(seq) == {seq[i] : i \in 1..Len(seq)}

\* the loop stopping one test early
LoopDone_OneEarly(i) == i >= Len(enabled_tests)

\* the loop is past its last test
LoopDone(i) == i > Len(enabled_tests)

\* run_all_tests, lines 146-149: run_test returned, its result is appended
SeqAppend ==
    /\ mode = "sequential"
    /\ mainPc = "running"
    /\ ~LoopDone(idx)
    /\ pc[enabled_tests[idx]] = "returned"
    /\ results' = Append(results, status[enabled_tests[idx]])
    /\ idx' = idx + 1
    /\ mainPc' = IF LoopDone(idx + 1) THEN "export" ELSE "running"
    /\ UNCHANGED <<inputVars, config, tests, enabled_tests, ret, export,
                   testVars, fs, log>>

\* run_all_tests, line 149 / main, lines 39-42: run_test raised; nothing in
\* run_all_tests catches it, main logs the error and exits with status 1
SeqRaise ==
    /\ mode = "sequential"
    /\ mainPc = "running"
    /\ ~LoopDone(idx)
    /\ pc[enabled_tests[idx]] = "raised"
    /\ mainPc' = "exit1"
    /\ log' = log \cup {<<"error", exc[enabled_tests[idx]]>>}
    /\ UNCHANGED <<inputVars, config, tests, loopVars, testVars, fs>>

\* the results taken as the workers complete, whichever test that is
ParCollect_AsCompleted ==
    /\ mode = "parallel"
    /\ mainPc = "running"
    /\ ~LoopDone(idx)
    /\ \E t \in Names(enabled_tests) :
          /\ pc[t] = "returned"
          /\ \A i \in 1..Len(results) : results[i].name # t
          /\ results' = Append(results, status[t])
    /\ idx' = idx + 1
    /\ mainPc' = IF LoopDone(idx + 1) THEN "export" ELSE "running"
    /\ UNCHANGED <<inputVars, config, tests, enabled_tests, ret, export,
                   testVars, fs, log>>

\* run_all_tests, line 145: list() takes the next result of executor.map,
\* which yields the results in the order of enabled_tests
ParCollect ==
    /\ mode = "parallel"
    /\ mainPc = "running"
    /\ ~LoopDone(idx)
    /\ pc[enabled_tests[idx]] = "returned"
    /\ results' = Append(results, status[enabled_tests[idx]])
    /\ idx' = idx + 1
    /\ mainPc' = IF LoopDone(idx + 1) THEN "export" ELSE "running"
    /\ UNCHANGED <<inputVars, config, tests, enabled_tests, ret, export,
                   testVars, fs, log>>

\* run_all_tests, line 145: the next future of executor.map holds an
\* exception; the iterator raises it and cancels the futures no worker has
\* taken yet
ParRaise ==
    /\ mode = "parallel"
    /\ mainPc = "running"
    /\ ~LoopDone(idx)
    /\ pc[enabled_tests[idx]] = "raised"
    /\ pc' = [t \in Methods |->
                IF t \in Names(enabled_tests) /\ pc[t] = "idle"
                THEN "cancelled" ELSE pc[t]]
    /\ mainPc' = "aborting"
    /\ UNCHANGED <<inputVars, config, tests, loopVars, temp_conf_path, exc,
                   status, spawned, proc, fs, log>>

\* run_all_tests, line 144 / main, lines 39-42: leaving the with block waits
\* for the workers still running; then the exception reaches main
ParShutdown ==
    /\ mode = "parallel"
    /\ mainPc = "aborting"
    /\ \A t \in Names(enabled_tests) :
          pc[t] \in {"returned", "raised", "cancelled"}
    /\ mainPc' = "exit1"
    /\ log' = log \cup {<<"error", exc[enabled_tests[idx]]>>}
    /\ UNCHANGED <<inputVars, config, tests, loopVars, testVars, fs>>

\* the report built from the results list as it was at line 134
ReportDocument_Initial(res) == [tests |-> <<>>]

\* the report document: {"tests": results, "timestamp": ...}; the timestamp
\* is left out
ReportDocument(res) == [tests |-> res]

\* run_all_tests, lines 151-157: the report document is written
ExportOk ==
    /\ mainPc = "export"
    /\ fs' = WriteFile(RESULTS_FILE, Dumped(ReportDocument(results)))
    /\ export' = "written"
    /\ log' = log \cup {<<"print", "Test results exported">>}
    /\ mainPc' = "summary"
    /\ UNCHANGED <<inputVars, config, tests, enabled_tests, idx, results, ret,
                   testVars>>

\* run_all_tests, lines 153-159: writing the report fails, a warning is logged
ExportFails ==
    /\ mainPc = "export"
    /\ export' = "failed"
    /\ log' = log \cup {<<"warning", "Failed to export results">>}
    /\ mainPc' = "summary"
    /\ UNCHANGED <<inputVars, config, tests, enabled_tests, idx, results, ret,
                   testVars, fs>>

\* run_all_tests, lines 161-171: the summary is printed, results returned
Summary ==
    /\ mainPc = "summary"
    /\ log' = log \cup {<<"summary", results[i].name>> : i \in 1..Len(results)}
    /\ ret' = results
    /\ mainPc' = "returned"
    /\ UNCHANGED <<inputVars, config, tests, enabled_tests, idx, results,
                   export, testVars, fs>>

\* main, line 38: run_all_tests returned, main ends, exit status 0
MainReturn ==
    /\ mode \in {"sequential", "parallel"}
    /\ mainPc = "returned"
    /\ mainPc' = "exit0"
    /\ UNCHANGED <<inputVars, config, tests, loopVars, testVars, fs, log>>

\* the direct caller: run_test returned, it goes on to the next catalog test
DirectNext ==
    /\ mode = "direct"
    /\ mainPc = "loaded"
    /\ idx <= Len(Catalog)
    /\ pc[Catalog[idx]] = "returned"
    /\ results' = Append(results, status[Catalog[idx]])
    /\ idx' = idx + 1
    /\ UNCHANGED <<inputVars, mainPc, config, tests, enabled_tests, ret,
                   export, testVars, fs, log>>

\* the direct caller: run_test raised, the caller stops
DirectRaise ==
    /\ mode = "direct"
    /\ mainPc = "loaded"
    /\ idx <= Len(Catalog)
    /\ pc[Catalog[idx]] = "raised"
    /\ mainPc' = "aborted"
    /\ UNCHANGED <<inputVars, config, tests, loopVars, testVars, fs, log>>

(* ------------------------ generate_config_template --------------------- *)

\* the template has been generated in this behaviour
Generated == <<"info", "Generated template config">> \in log

\* main, lines 31-33, and generate_config_template: an invocation with
\* --generate-config writes the template to the configuration path, logs it
\* and returns; the next invocation of main starts from that file
GenerateConfigTemplate ==
    /\ mainPc = "start"
    /\ ~Generated
    /\ cfgFile' = Template
    /\ log' = log \cup {<<"info", "Generated template config">>,
                        <<"print", "Template config generated">>}
    /\ UNCHANGED <<env, dry_run, mode, mainPc, config, tests, loopVars,
                   testVars, fs>>

\* generate_config_template, lines 151-153: open raises, the error is logged
\* and raised again; line 32 of main is outside its try block, so the
\* exception leaves main uncaught instead of reaching exit(1) of line 42
GenerateConfigTemplateFails ==
    /\ mainPc = "start"
    /\ ~Generated
    /\ log' = log \cup {<<"error", "Failed to generate config">>}
    /\ mainPc' = "uncaught"
    /\ UNCHANGED <<inputVars, config, tests, loopVars, testVars, fs>>

Next ==
    \/ GenerateConfigTemplate
    \/ GenerateConfigTemplateFails
    \/ LoadConfigOk
    \/ LoadConfigFails
    \/ RunAllTestsNoneEnabled
    \/ RunAllTestsBegin
    \/ \E t \in Methods : RunTestStep(t)
    \/ SeqAppend
    \/ SeqRaise
    \/ ParCollect
    \/ ParRaise
    \/ ParShutdown
    \/ ExportOk
    \/ ExportFails
    \/ Summary
    \/ MainReturn
    \/ DirectNext
    \/ DirectRaise

Spec == Init /\ [][Next]_vars

(* --------------------- the configuration module alone ------------------ *)

\* the ports a document may carry: around both ends of the valid range
PortChoices == {-1, 0, 1, 1812, 65535, 65536}

\* documents for the configuration module: every port choice, the template,
\* the documents the schema rejects, no file
ConfigDocs ==
    {[RunnableDoc EXCEPT !.server.port = JInt(p)] : p \in PortChoices}
        \cup {Template} \cup InvalidDocs \cup {NoFile}

\* the value each EAPTESTOR_* variable carries when it is set and not empty
EnvValue(name) ==
    IF name = "EAPTESTOR_SECRETKEY" THEN "env_secret"
    ELSE IF name = "EAPTESTOR_PRIVATE_KEY_PASSWORD" THEN "env_key_password"
    ELSE IF name = "EAPTESTOR_PASSWORD" THEN "env_password"
    ELSE "env_identity"

\* the variables of the three sensitive keys and one load_config never reads
EnvNames == {"EAPTESTOR_SECRETKEY", "EAPTESTOR_PRIVATE_KEY_PASSWORD",
             "EAPTESTOR_PASSWORD", "EAPTESTOR_IDENTITY"}

\* every environment: each variable unset, set to "", or set to its value
AllEnvs ==
    UNION { {e \in [S -> {""} \cup {EnvValue(n) : n \in S}] :
                \A n \in S : e[n] \in {"", EnvValue(n)}} :
            S \in SUBSET EnvNames }

InitConfig ==
    /\ cfgFile \in ConfigDocs
    /\ env \in AllEnvs
    /\ dry_run = FALSE
    /\ mode = "sequential"
    /\ mainPc = "start"
    /\ config = NoConfig
    /\ tests = <<>>
    /\ enabled_tests = <<>>
    /\ idx = 1
    /\ results = <<>>
    /\ ret = <<>>
    /\ export = "none"
    /\ pc = [t \in Methods |-> "idle"]
    /\ temp_conf_path = [t \in Methods |-> None]
    /\ exc = [t \in Methods |-> None]
    /\ status = [t \in Methods |-> NoStatus]
    /\ spawned = [t \in Methods |-> <<>>]
    /\ proc = [t \in Methods |-> NoProc]
    /\ fs = [p \in UserFiles |-> UserFile]
    /\ log = {}

\* generate_config_template and load_config, as main calls them
NextConfig ==
    \/ GenerateConfigTemplate
    \/ GenerateConfigTemplateFails
    \/ LoadConfigOk
    \/ LoadConfigFails

SpecConfig == InitConfig /\ [][NextConfig]_vars

(* ------------------- the legacy CLI: execute_eapol_test ---------------- *)
(* The legacy CLI is a program of its own; its run is held in the same     *)
(* variables: config is its TestConfig, fs holds the per-type .conf files,  *)
(* pc, spawned and proc are per EAP type, log is what it logged.           *)

\* cli.EAPOL_TEST_PATH
EAPOL_TEST_PATH == "/usr/local/bin/eapol_test"

\* cli.CONFIG_DIR
CONFIG_DIR == "config"

\* the EAP types execute_eapol_test is asked for
LegacyTypes == {"eap_md5", "eap_tls", "eap_peap"}

\* RadiusConfig: server, port, secret
LegacyRadius == [server |-> "127.0.0.1", port |-> 1812, secret |-> "shared"]

\* EAPTypeConfig.conf_path: CONFIG_DIR / f"{self.name}.conf"
conf_path(eap_config) == CONFIG_DIR \o "/" \o eap_config.name \o ".conf"

\* TestConfig with the EAP types T configured, as load_config builds it
LegacyConfig(T) ==
    [radius |-> LegacyRadius,
     eap_types |-> [e \in T |-> [name |-> e, settings |-> [identity |-> "user"]]]]

\* the .conf file is taken to exist whatever the disk holds
ConfExists_Always(path) == TRUE

\* config_file.exists()
ConfExists(path) == path \in DOMAIN fs

InitCli ==
    /\ cfgFile = NoFile
    /\ env = [v \in {} |-> ""]
    /\ dry_run = FALSE
    /\ mode = "legacy"
    /\ mainPc = "start"
    /\ config \in {LegacyConfig(T) : T \in SUBSET LegacyTypes}
    /\ tests = <<>>
    /\ enabled_tests = <<>>
    /\ idx = 1
    /\ results = <<>>
    /\ ret = <<>>
    /\ export = "none"
    /\ pc = [e \in LegacyTypes |-> "idle"]
    /\ temp_conf_path = [e \in LegacyTypes |-> None]
    /\ exc = [e \in LegacyTypes |-> None]
    /\ status = [e \in LegacyTypes |-> NoStatus]
    /\ spawned = [e \in LegacyTypes |-> <<>>]
    /\ proc = [e \in LegacyTypes |-> NoProc]
    /\ fs \in {[p \in {conf_path([name |-> e]) : e \in T} |-> UserFile] :
                 T \in SUBSET LegacyTypes}
    /\ log = {}

\* execute_eapol_test is called for eap_type: calls do not overlap
Called(eap_type) ==
    /\ mode = "legacy"
    /\ pc[eap_type] = "idle"
    /\ \A e \in LegacyTypes : pc[e] # "running"

\* execute_eapol_test, lines 408-411: the type is not configured
ExecuteNotConfigured(eap_type) ==
    /\ Called(eap_type)
    /\ eap_type \notin DOMAIN config.eap_types
    /\ log' = log \cup {<<"error not configured", eap_type>>}
    /\ pc' = [pc EXCEPT ![eap_type] = "returned"]
    /\ UNCHANGED <<inputVars, mainPc, config, tests, loopVars, temp_conf_path,
                   exc, status, spawned, proc, fs>>

\* execute_eapol_test, lines 413-416: the type's .conf file does not exist
ExecuteConfMissing(eap_type) ==
    /\ Called(eap_type)
    /\ eap_type \in DOMAIN config.eap_types
    /\ ~ConfExists(conf_path(config.eap_types[eap_type]))
    /\ log' = log \cup {<<"error conf not found", eap_type>>}
    /\ pc' = [pc EXCEPT ![eap_type] = "returned"]
    /\ UNCHANGED <<inputVars, mainPc, config, tests, loopVars, temp_conf_path,
                   exc, status, spawned, proc, fs>>

\* execute_eapol_test, lines 423-429: the command
LegacyCommand(eap_type) ==
    <<EAPOL_TEST_PATH,
      "-a" \o config.radius.server,
      "-p" \o ToString(config.radius.port),
      "-s" \o config.radius.secret,
      "-c" \o conf_path(config.eap_types[eap_type])>>

\* execute_eapol_test, lines 408-431: both checks pass, subprocess.run is
\* called with the command
ExecuteRun(eap_type) ==
    /\ Called(eap_type)
    /\ eap_type \in DOMAIN config.eap_types
    /\ ConfExists(conf_path(config.eap_types[eap_type]))
    /\ spawned' = [spawned EXCEPT ![eap_type] = Append(@, LegacyCommand(eap_type))]
    /\ pc' = [pc EXCEPT ![eap_type] = "running"]
    /\ UNCHANGED <<inputVars, mainPc, config, tests, loopVars, temp_conf_path,
                   exc, status, proc, fs, log>>

\* execute_eapol_test, lines 432-435: the process exits with code 0
ExecutePassed(eap_type) ==
    /\ mode = "legacy"
    /\ pc[eap_type] = "running"
    /\ proc' = [proc EXCEPT ![eap_type] = Completed(0, "")]
    /\ log' = log \cup {<<"info passed", eap_type>>}
    /\ pc' = [pc EXCEPT ![eap_type] = "returned"]
    /\ UNCHANGED <<inputVars, mainPc, config, tests, loopVars, temp_conf_path,
                   exc, status, spawned, fs>>

\* execute_eapol_test, lines 436-441: the process exits with another code
ExecuteFailed(eap_type) ==
    /\ mode = "legacy"
    /\ pc[eap_type] = "running"
    /\ \E outcome \in {Completed(1, "auth rejected"), Completed(255, "")} :
          proc' = [proc EXCEPT ![eap_type] = outcome]
    /\ log' = log \cup {<<"error failed with return code", eap_type>>}
    /\ pc' = [pc EXCEPT ![eap_type] = "returned"]
    /\ UNCHANGED <<inputVars, mainPc, config, tests, loopVars, temp_conf_path,
                   exc, status, spawned, fs>>

\* execute_eapol_test, lines 442-443: subprocess.run raises OSError, which
\* is logged
ExecuteOSError(eap_type) ==
    /\ mode = "legacy"
    /\ pc[eap_type] = "running"
    /\ proc' = [proc EXCEPT ![eap_type] = Failed("OSError")]
    /\ log' = log \cup {<<"error failed to execute", eap_type>>}
    /\ pc' = [pc EXCEPT ![eap_type] = "returned"]
    /\ UNCHANGED <<inputVars, mainPc, config, tests, loopVars, temp_conf_path,
                   exc, status, spawned, fs>>

execute_eapol_test(eap_type) ==
    \/ ExecuteNotConfigured(eap_type)
    \/ ExecuteConfMissing(eap_type)
    \/ ExecuteRun(eap_type)
    \/ ExecutePassed(eap_type)
    \/ ExecuteFailed(eap_type)
    \/ ExecuteOSError(eap_type)

NextCli == \E eap_type \in LegacyTypes : execute_eapol_test(eap_type)

SpecCli == InitCli /\ [][NextCli]_vars

(* ------------------------------- claims -------------------------------- *)

\* run_test has been left for t: it returned or an exception left it
ExitPcs == {"returned", "raised"}

\* main called run_all_tests (not the direct caller of run_test)
ViaRunAll == mode \in {"sequential", "parallel"}

\* C1: whenever run_test exits after it created a temporary artifact, the
\* artifact no longer exists at that moment, on every exit path (stated here
\* granting a failed os.unlink, which is only warned about).
C1_ArtifactRemovedOnExit ==
    [][\A t \in Methods :
          ( /\ pc[t] \notin ExitPcs
            /\ pc'[t] \in ExitPcs
            /\ temp_conf_path'[t] # None
            /\ <<"warning delete failed", t>> \notin log' )
          => temp_conf_path'[t] \notin DOMAIN fs']_vars

\* C2: when a run over two or more enabled tests is over, every enabled test
\* was executed and has its own entry in the returned report, whatever
\* per-test error another test met.
C2_ErrorsDoNotAbortSiblings ==
    ( /\ ViaRunAll
      /\ mainPc \in {"exit0", "exit1"}
      /\ Len(enabled_tests) >= 2 )
    => \A t \in Names(enabled_tests) :
          /\ pc[t] \in ExitPcs
          /\ \E i \in 1..Len(ret) : ret[i].name = t

\* run_all_tests has returned its report (ret)
Returned == ViaRunAll /\ mainPc \in {"returned", "exit0"}

\* C3 as claimed: the report run_all_tests returns has an entry with status
\* skipped for every disabled test.
C3_DisabledReportedSkipped ==
    (Returned /\ enabled_tests # <<>>) =>
        \A t \in Methods :
            ~TestOf(t).enabled =>
                \E i \in 1..Len(ret) : ret[i] = Result(t, "skipped", None)

\* C3 as amended: run_test on a disabled test returns skipped, whatever the
\* dry-run flag, and touches nothing; the report run_all_tests returns has
\* entries for enabled tests only, none of them skipped; one enabled test
\* whose process exits 0 next to disabled ones yields that single entry.
C3_DisabledNotInReport ==
    /\ \A t \in Methods :
          (pc[t] = "returned" /\ ~TestOf(t).enabled) =>
              /\ status[t] = Result(t, "skipped", None)
              /\ temp_conf_path[t] = None
              /\ spawned[t] = <<>>
    /\ Returned =>
          /\ \A i \in 1..Len(ret) :
                TestOf(ret[i].name).enabled /\ ret[i].status # "skipped"
          /\ \A t \in Methods :
                (enabled_tests = <<t>> /\ proc[t] = Completed(0, "")) =>
                    ret = <<Result(t, "success", None)>>

\* C3 witness: a sequential run without dry-run, one enabled test whose
\* process exited 0 and six disabled ones, has returned its report.
C3_Witness ==
    /\ mode = "sequential"
    /\ ~dry_run
    /\ mainPc = "returned"
    /\ Len(enabled_tests) = 1
    /\ proc[enabled_tests[1]] = Completed(0, "")
    /\ \E t \in Methods : ~TestOf(t).enabled

\* the path settings of t that are present, non-empty and name no file
MissingPaths(t) ==
    {k \in {"certificate_file", "private_key_file", "ca_cert", "pac_file"} :
        /\ k \in DOMAIN config.eap_methods[t].config
        /\ config.eap_methods[t].config[k] # ""
        /\ config.eap_methods[t].config[k] \notin DOMAIN fs}

\* run_test returned for an enabled test with a missing path, no dry-run
ReturnedWithMissingPath(t) ==
    /\ pc[t] = "returned"
    /\ config.eap_methods[t].enabled
    /\ ~dry_run
    /\ MissingPaths(t) # {}

C5_DryRunSpawnsNothing ==
    (dry_run /\ ViaRunAll) =>
        /\ \A t \in Methods :
              /\ spawned[t] = <<>>
              /\ proc[t] = NoProc
              /\ pc[t] # "running"
              /\ pc[t] = "returned" => status[t] = Result(t, "dry_run", None)
        /\ Returned =>
              /\ Len(ret) = Len(enabled_tests)
              /\ \A i \in 1..Len(ret) : ret[i].status = "dry_run"

\* C5 witness: a parallel dry run over two enabled tests has returned.
C5_Witness ==
    /\ dry_run
    /\ mode = "parallel"
    /\ mainPc = "returned"
    /\ Len(ret) = 2

\* the status the precedence table gives test t, with the status named v for
\* its missing-path rule
RuleStatus(t, v) ==
    IF ~config.eap_methods[t].enabled THEN "skipped"
    ELSE IF dry_run THEN "dry_run"
    ELSE IF MissingPaths(t) # {} THEN v
    ELSE IF proc[t].kind = "FileNotFoundError" THEN "failed"
    ELSE IF proc[t].kind = "completed" /\ proc[t].returncode # 0 THEN "failed"
    ELSE IF proc[t].kind = "completed" /\ proc[t].returncode = 0 THEN "success"
    ELSE "no rule"

\* the error detail the precedence table fixes for the outcome of t
RuleErrorHolds(t) ==
    /\ status[t].status \in {"skipped", "dry_run", "success"}
          => status[t].error = None
    /\ (status[t].status = "failed" /\ proc[t].kind = "completed")
          => status[t].error = proc[t].stderr
    /\ (status[t].status = "failed" /\ proc[t].kind = "FileNotFoundError")
          => status[t].error = "eapol_test not found"
    /\ (status[t].status = "failed" /\ proc[t].kind = "none")
          => status[t].error # None

C7_ParallelExactlyOnce ==
    mode = "parallel" =>
        /\ \A t \in Methods : Len(spawned[t]) <= 1
        /\ Returned =>
              /\ Len(ret) = Len(enabled_tests)
              /\ \A t \in Names(enabled_tests) :
                    /\ Cardinality({i \in 1..Len(ret) : ret[i].name = t}) = 1
                    /\ \A i \in 1..Len(ret) :
                          ret[i].name = t => ret[i] = status[t]
                    /\ Len(spawned[t]) = 1 <=> proc[t].kind = "completed"
              /\ (\A t \in Names(enabled_tests) : proc[t] = Completed(0, ""))
                    => \A i \in 1..Len(ret) : ret[i].status = "success"

\* C7 witness: a parallel run of two enabled tests, both processes exited 0,
\* has returned.
C7_Witness ==
    /\ mode = "parallel"
    /\ mainPc = "returned"
    /\ Len(enabled_tests) = 2
    /\ \A t \in Names(enabled_tests) : proc[t] = Completed(0, "")

\* run_test holds an artifact for t: created and not yet past the unlink
InFlight(t) == pc[t] \in {"created", "ready", "running", "finally"}

\* the settings of t in the document, with the loaded passphrase
OwnSettings(t) ==
    [k \in DOMAIN cfgFile.eap_methods[t].config \cup {"private_key_passwd"} |->
        IF k = "private_key_passwd"
        THEN config.server.private_key_password.value
        ELSE cfgFile.eap_methods[t].config[k]]

\* C8, the states: no two in-flight tests have the same artifact, and from
\* before the spawn until after the exit the artifact holds the own settings
C8_OwnArtifact ==
    mode = "parallel" =>
        /\ \A t, u \in Methods :
              (InFlight(t) /\ InFlight(u) /\ t # u)
                  => temp_conf_path[t] # temp_conf_path[u]
        /\ \A t \in Methods :
              pc[t] \in {"ready", "running", "finally"} =>
                  /\ temp_conf_path[t] \in DOMAIN fs
                  /\ fs[temp_conf_path[t]] = Dumped(OwnSettings(t))

\* C8, the steps: a step of one test leaves the artifact of every other
\* in-flight test in place and unchanged
C8_OthersUntouched ==
    mode = "parallel" =>
        \A u \in Methods :
            (InFlight(u) /\ pc'[u] = pc[u]) =>
                /\ temp_conf_path[u] \in DOMAIN fs'
                /\ fs'[temp_conf_path[u]] = fs[temp_conf_path[u]]

\* C8: in parallel mode no two in-flight tests use the same artifact file,
\* no test writes or deletes the artifact of another, and each artifact
\* exists with its test's own settings from before the spawn until the
\* process has exited.
C8_ArtifactIsolation == [](C8_OwnArtifact) /\ [][C8_OthersUntouched]_vars

\* C8 witness: two tests of a parallel run have their processes running at
\* the same time.
C8_Witness ==
    /\ mode = "parallel"
    /\ \E t, u \in Methods : t # u /\ pc[t] = "running" /\ pc[u] = "running"

\* the report document was written and holds exactly the returned results
ReportHoldsReturned ==
    /\ export \in {"written", "failed"}
    /\ export = "written" =>
          /\ RESULTS_FILE \in DOMAIN fs
          /\ fs[RESULTS_FILE] = Dumped([tests |-> ret])

\* C9 as claimed: every run_all_tests that returned has attempted to write
\* the report holding the results it returns, also when no test is enabled.
C9_ReportAlwaysAttempted == Returned => ReportHoldsReturned

\* C9 as amended: a run_all_tests that returned with at least one enabled
\* test has attempted to write the report holding exactly the results it
\* returns; with no test enabled it returns an empty report, surfaces a
\* warning and does not write the report document.
C9_ReportAttemptedWhenEnabled ==
    Returned =>
        IF \E t \in Methods : config.eap_methods[t].enabled
        THEN ReportHoldsReturned
        ELSE /\ ret = <<>>
             /\ <<"warning", "No EAP methods enabled">> \in log
             /\ export = "none"
             /\ RESULTS_FILE \notin DOMAIN fs

\* C9 witness: a run over two enabled tests returned after writing the report.
C9_Witness ==
    /\ ViaRunAll
    /\ mainPc = "returned"
    /\ export = "written"
    /\ Len(ret) = 2

\* C10: when the configuration file is missing or the schema rejects it (a
\* catalog method missing included), main goes from its start to exit
\* status 1 and nothing else happens: no test runs, no process, no artifact,
\* no report; a missing file is reported as FileNotFoundError. (An earlier
\* invocation with --generate-config that failed leaves the file as it was
\* and ends uncaught, with nothing else happening either.)
C10_ConfigErrorAborts ==
    (cfgFile \in InvalidDocs \cup {NoFile}) =>
        /\ mainPc \in {"start", "exit1", "uncaught"}
        /\ \A t \in Methods :
              /\ pc[t] = "idle"
              /\ spawned[t] = <<>>
              /\ temp_conf_path[t] = None
        /\ DOMAIN fs = UserFiles
        /\ export = "none"
        /\ mainPc = "exit1" =>
              IF cfgFile = NoFile
              THEN <<"error", "FileNotFoundError">> \in log
              ELSE <<"error", "ValueError">> \in log

\* C10 witness: main has exited with status 1 on a document that lacks a
\* catalog method.
C10_Witness ==
    /\ mainPc = "exit1"
    /\ cfgFile \in InvalidDocs
    /\ "eap_fast" \notin DOMAIN cfgFile.eap_methods

\* what the environment resolves a sensitive server field to: the variable's
\* value when it is set and not empty, the document's value otherwise
Resolved(name, documentValue) ==
    IF name \in DOMAIN env /\ env[name] # "" THEN JStr(env[name])
    ELSE documentValue

\* C11: in every configuration load_config returns, secretkey,
\* private_key_password and password carry the value of EAPTESTOR_SECRETKEY,
\* EAPTESTOR_PRIVATE_KEY_PASSWORD and EAPTESTOR_PASSWORD when that variable
\* is set and not empty, and the document's value otherwise; every other
\* server field and the eap_methods section are the document's.
C11_EnvOverrides ==
    mainPc = "loaded" =>
        /\ config.server.secretkey =
              Resolved("EAPTESTOR_SECRETKEY", cfgFile.server.secretkey)
        /\ config.server.private_key_password =
              Resolved("EAPTESTOR_PRIVATE_KEY_PASSWORD",
                       cfgFile.server.private_key_password)
        /\ config.server.password =
              Resolved("EAPTESTOR_PASSWORD", cfgFile.server.password)
        /\ DOMAIN config.server = DOMAIN cfgFile.server
        /\ \A k \in {"ipaddress", "port", "identity"} :
              config.server[k] = cfgFile.server[k]
        /\ config.eap_methods = cfgFile.eap_methods

\* a load with one variable overriding, one set but empty, one not set, and
\* a variable of a field that is not overridden
C11_Witness ==
    /\ mainPc = "loaded"
    /\ DOMAIN env = {"EAPTESTOR_SECRETKEY", "EAPTESTOR_PASSWORD",
                     "EAPTESTOR_IDENTITY"}
    /\ env["EAPTESTOR_SECRETKEY"] = "env_secret"
    /\ env["EAPTESTOR_PASSWORD"] = ""
    /\ env["EAPTESTOR_IDENTITY"] = "env_identity"
    /\ config.server.secretkey = JStr("env_secret")
    /\ config.server.password = JStr("testpass")
    /\ config.server.identity = JStr("testuser")

\* C12: executing a test never changes the loaded configuration: at every
\* moment after construction each test's settings mapping (the eap_methods
\* section it was built from) equals what the document held at construction.
C12_SettingsNeverMutated ==
    "eap_methods" \in DOMAIN config =>
        \A t \in Methods :
            config.eap_methods[t].config = cfgFile.eap_methods[t].config

\* the deletion of t's temporary artifact failed
DeleteFailed(t) == <<"warning delete failed", t>> \in log

\* C13 (state part): a run under run_all_tests ends with exit status 1 only
\* when some test left run_test with an exception of its own; a run that
\* came to its end, with failed deletions and a failed report write or not,
\* returns one result per enabled test, in their order, and has printed the
\* summary line of each.
C13_RunOutcomeKept ==
    /\ (ViaRunAll /\ mainPc = "exit1" /\ "eap_methods" \in DOMAIN config)
          => \E t \in Methods : pc[t] = "raised" /\ exc[t] # None
    /\ (ViaRunAll /\ mainPc \in {"returned", "exit0"}
                  /\ enabled_tests # <<>>)
          => /\ export \in {"written", "failed"}
             /\ Len(ret) = Len(enabled_tests)
             /\ \A i \in 1..Len(ret) :
                   /\ ret[i] = status[enabled_tests[i]]
                   /\ ret[i].name = enabled_tests[i]
                   /\ pc[enabled_tests[i]] = "returned"
                   /\ <<"summary", enabled_tests[i]>> \in log

\* C13 (step part): the step that leaves run_test's finally block, the
\* deletion failing or not, keeps the status and the pending exception as
\* they were before it: the result returned is the one of a deletion that
\* succeeded.
C13_FinallyKeepsResult ==
    \A t \in Methods :
        (pc[t] = "finally" /\ pc'[t] # "finally") =>
            /\ status'[t] = status[t]
            /\ exc'[t] = exc[t]
            /\ pc'[t] = IF exc[t] = None THEN "returned" ELSE "raised"

\* C13: a failure of best-effort cleanup (the artifact's deletion, the
\* report write) never changes the run's outcome.
C13_CleanupFailureHarmless ==
    [](C13_RunOutcomeKept) /\ [][C13_FinallyKeepsResult]_vars

\* a run that ended with exit status 0 although the deletion of its first
\* test's artifact and the report write failed, with both results returned
C13_Witness ==
    /\ mainPc = "exit0"
    /\ export = "failed"
    /\ Len(ret) = 2
    /\ DeleteFailed(ret[1].name)
    /\ ret[1].status = "success"
    /\ ret[2].status = "success"

\* the catalog order the sequential run is to follow
SequentialOrder == <<"tls", "ttls_tls", "peap_tls", "peap_mschapv2",
                     "ttls_md5", "ttls_mschapv2", "eap_fast">>

\* the place of test t in that order
OrderOf(t) == CHOOSE i \in 1..Len(SequentialOrder) : SequentialOrder[i] = t

\* the results in res follow that order
InCatalogOrder(res) ==
    \A i, j \in 1..Len(res) :
        i < j => OrderOf(res[i].name) < OrderOf(res[j].name)

\* the temporary artifacts on disk
Artifacts == DOMAIN fs \cap TempNames

\* the artifacts on disk that a test failed to delete
Leaked == {p \in Artifacts :
             \E u \in Methods : DeleteFailed(u) /\ temp_conf_path[u] = p}

\* in sequential mode at most one test is inside run_test, at most one
\* process runs, and the results recorded and the report written follow the
\* catalog order
SequentialOneAtATime ==
    mode = "sequential" =>
        /\ Cardinality({t \in Methods :
                           pc[t] \notin {"idle", "returned", "raised"}}) <= 1
        /\ Cardinality({t \in Methods : pc[t] = "running"}) <= 1
        /\ InCatalogOrder(results)
        /\ InCatalogOrder(ret)
        /\ RESULTS_FILE \in DOMAIN fs
              => InCatalogOrder(fs[RESULTS_FILE].json.tests)

\* test t enters run_test in this step of a sequential run
SequentialStart(t) ==
    mode = "sequential" /\ pc[t] = "idle" /\ pc'[t] # "idle"

\* the enabled tests before t in the catalog order
EnabledBefore(t) ==
    {u \in Methods : config.eap_methods[u].enabled /\ OrderOf(u) < OrderOf(t)}

\* the result of u is recorded
Recorded(u) == \E i \in 1..Len(results) : results[i] = status[u]

\* C14 as stated: in sequential mode the enabled tests run one at a time in
\* catalog order, at most one process and at most one temporary artifact
\* exist at any time, a test starts only after the previous tests' results
\* are recorded and their artifacts removed, and the report is in catalog
\* order.
C14_SequentialOneArtifact ==
    /\ [](SequentialOneAtATime)
    /\ [](mode = "sequential" => Cardinality(Artifacts) <= 1)
    /\ [][\A t \in Methods :
            SequentialStart(t) =>
                \A u \in EnabledBefore(t) :
                    /\ pc[u] = "returned"
                    /\ Recorded(u)
                    /\ Artifacts = {}]_vars

\* C14 amended: the same, where an artifact whose deletion failed (warned
\* about) may remain: at most one artifact exists beside those, and a test
\* starts only after the previous tests' results are recorded and their
\* artifacts removed or their deletion has failed.
C14_SequentialOneAtATime ==
    /\ [](SequentialOneAtATime)
    /\ [](mode = "sequential" =>
            Cardinality(Artifacts \ Leaked) <= 1)
    /\ [][\A t \in Methods :
            SequentialStart(t) =>
                \A u \in EnabledBefore(t) :
                    /\ pc[u] = "returned"
                    /\ Recorded(u)
                    /\ Artifacts = Leaked]_vars

\* a sequential run of tls and eap_fast came to its end with both results
\* in the report, the second test having started while the first test's
\* artifact, whose deletion failed, was still on disk
C14_Witness ==
    /\ mode = "sequential"
    /\ mainPc = "exit0"
    /\ enabled_tests = <<"tls", "eap_fast">>
    /\ RESULTS_FILE \in DOMAIN fs
    /\ Len(fs[RESULTS_FILE].json.tests) = 2
    /\ fs[RESULTS_FILE].json.tests[1].name = "tls"
    /\ spawned["tls"] # <<>>
    /\ spawned["eap_fast"] # <<>>
    /\ DeleteFailed("tls")
    /\ temp_conf_path["tls"] \in Leaked

\* the argument list of an invocation for test t follows the fixed order
FixedOrder(t, cmd) ==
    /\ Len(cmd) >= 14
    /\ cmd[1] = "eapol_test"
    /\ cmd[2] = "-c" /\ cmd[3] = temp_conf_path[t]
    /\ cmd[4] = "-a" /\ cmd[5] = config.server.ipaddress.value
    /\ cmd[6] = "-p" /\ cmd[7] = ToString(config.server.port.value)
    /\ cmd[8] = "-s" /\ cmd[9] = config.server.secretkey.value
    /\ cmd[10] = "-r" /\ cmd[11] = "0"
    /\ cmd[12] = "-M" /\ cmd[13] = config.server.identity.value
    /\ cmd[14] = "-o"

\* C15: every invocation of the external process by run_test carries the
\* fixed-order argument list (executable, -c artifact path, -a address, -p
\* port, -s secret, -r 0, -M identity, -o), followed by -P and the password
\* for peap_mschapv2, ttls_md5, ttls_mschapv2 and eap_fast, and by nothing
\* for tls, ttls_tls and peap_tls.
C15_FixedArgumentList ==
    \A t \in Methods : \A i \in 1..Len(spawned[t]) :
        /\ FixedOrder(t, spawned[t][i])
        /\ IF t \in {"peap_mschapv2", "ttls_md5", "ttls_mschapv2", "eap_fast"}
           THEN SubSeq(spawned[t][i], 15, Len(spawned[t][i]))
                    = <<"-P", config.server.password.value>>
           ELSE Len(spawned[t][i]) = 14

\* a test without and a test with the password were both invoked
C15_Witness ==
    /\ Len(spawned["tls"]) = 1
    /\ Len(spawned["tls"][1]) = 14
    /\ Len(spawned["eap_fast"]) = 1
    /\ spawned["eap_fast"][1][15] = "-P"
    /\ spawned["eap_fast"][1][16] = "testpass"

\* C17: every configuration load_config accepted has a server port in the
\* range 1 to 65535; a document whose port is 0, negative or greater than
\* 65535 is never loaded.
C17_PortInRange ==
    mainPc = "loaded" =>
        /\ config.server.port.type = "integer"
        /\ config.server.port.value >= 1
        /\ config.server.port.value <= 65535

\* the legacy configuration has eap_type
TypeConfigured(eap_type) ==
    \E e \in DOMAIN config.eap_types : e = eap_type

\* the per-type .conf file of eap_type is on disk
ConfOnDisk(eap_type) == ("config/" \o eap_type \o ".conf") \in DOMAIN fs

\* C18: in the legacy CLI, execute_eapol_test calls the external process
\* only for a configured EAP type whose .conf file exists; for an
\* unconfigured type or a missing .conf file it logs an error and returns
\* without a call; when the file exists it makes exactly one call, with the
\* eapol_test path as first argument, and logs that the test passed exactly
\* when the exit code is 0.
C18_LegacySpawnGuarded ==
    \A e \in LegacyTypes :
        /\ spawned[e] # <<>> =>
              /\ TypeConfigured(e) /\ ConfOnDisk(e)
              /\ Len(spawned[e]) = 1
              /\ spawned[e][1][1] = "/usr/local/bin/eapol_test"
        /\ (pc[e] = "returned" /\ ~TypeConfigured(e)) =>
              /\ spawned[e] = <<>>
              /\ <<"error not configured", e>> \in log
        /\ (pc[e] = "returned" /\ TypeConfigured(e) /\ ~ConfOnDisk(e)) =>
              /\ spawned[e] = <<>>
              /\ <<"error conf not found", e>> \in log
        /\ (pc[e] = "returned" /\ TypeConfigured(e) /\ ConfOnDisk(e)) =>
              /\ Len(spawned[e]) = 1
              /\ <<"info passed", e>> \in log
                    <=> proc[e] \in {[kind |-> "completed", returncode |-> 0,
                                      stderr |-> ""]}
        /\ <<"info passed", e>> \in log => pc[e] = "returned"

\* one type not configured, one without its .conf file, one that passed and
\* none of the first two was spawned
C18_Witness ==
    /\ mode = "legacy"
    /\ \A e \in LegacyTypes : pc[e] = "returned"
    /\ <<"error not configured", "eap_md5">> \in log
    /\ <<"error conf not found", "eap_tls">> \in log
    /\ <<"info passed", "eap_peap">> \in log
    /\ spawned["eap_peap"][1][1] = "/usr/local/bin/eapol_test"

\* generate_config_template wrote the document at the configuration path
TemplateWritten == <<"print", "Template config generated">> \in log

\* C19: the document generate_config_template wrote has the server section
\* and the seven catalog methods, every one disabled; load_config accepts it
\* (no error, no exit with status 1); with no EAPTESTOR_* variable set the
\* loaded configuration equals the document; and a run over it executes no
\* test: nothing is created, nothing spawned, no result recorded.
C19_TemplateLoadsAndRunsNothing ==
    TemplateWritten =>
        /\ DOMAIN cfgFile = {"server", "eap_methods"}
        /\ DOMAIN cfgFile.server = {"ipaddress", "port", "secretkey",
                                    "private_key_password", "identity",
                                    "password"}
        /\ DOMAIN cfgFile.eap_methods =
              {"tls", "ttls_tls", "peap_tls", "peap_mschapv2", "ttls_md5",
               "ttls_mschapv2", "eap_fast"}
        /\ \A n \in DOMAIN cfgFile.eap_methods :
              cfgFile.eap_methods[n].enabled = FALSE
        /\ mainPc # "exit1"
        /\ \A x \in log : x[1] # "error"
        /\ (mainPc # "start" /\ DOMAIN env = {}) => config = cfgFile
        /\ \A t \in Methods :
              /\ spawned[t] = <<>>
              /\ temp_conf_path[t] = None
              /\ status[t].status \in {None, "skipped"}
        /\ ViaRunAll => results = <<>> /\ \A t \in Methods : pc[t] = "idle"

\* the template was generated over a document the schema rejects, then
\* loaded with no variable set, and the run ended without a test
C19_Witness ==
    /\ TemplateWritten
    /\ mainPc = "exit0"
    /\ DOMAIN env = {}
    /\ config = cfgFile
    /\ config.server.port = JInt(1812)
    /\ <<"warning", "No EAP methods enabled">> \in log
    /\ ret = <<>>

\* the server's resolved private-key passphrase: the environment override
\* when set and not empty, the document's value otherwise
ResolvedPassphrase ==
    Resolved("EAPTESTOR_PRIVATE_KEY_PASSWORD",
             cfgFile.server.private_key_password).value

\* the artifact of t holds the document's settings of t with
\* private_key_passwd set to the resolved passphrase
ArtifactHasPassphrase(t) ==
    /\ temp_conf_path[t] \in DOMAIN fs
    /\ fs[temp_conf_path[t]] =
          [json |->
             [k \in DOMAIN cfgFile.eap_methods[t].config
                       \cup {"private_key_passwd"} |->
                 IF k = "private_key_passwd" THEN ResolvedPassphrase
                 ELSE cfgFile.eap_methods[t].config[k]]]

\* C20: in every step in which run_test invokes the external process for a
\* test, the artifact already holds the test's settings with
\* private_key_passwd set to the resolved passphrase, whatever value the
\* settings carried; and while the process runs the artifact still does.
C20_PassphraseBeforeSpawn ==
    /\ [][\A t \in Methods :
            spawned'[t] # spawned[t] => ArtifactHasPassphrase(t)]_vars
    /\ [](\A t \in Methods : pc[t] = "running" => ArtifactHasPassphrase(t))

\* the process of tls runs against an artifact whose stale passphrase was
\* replaced by the environment's
C20_Witness ==
    /\ pc["tls"] = "running"
    /\ spawned["tls"] # <<>>
    /\ cfgFile.eap_methods["tls"].config.private_key_passwd = "stale"
    /\ "EAPTESTOR_PRIVATE_KEY_PASSWORD" \in DOMAIN env
    /\ env["EAPTESTOR_PRIVATE_KEY_PASSWORD"] = "env_key_password"
    /\ fs[temp_conf_path["tls"]].json.private_key_passwd = "env_key_password"

\* the i-th entry of res is the result of the i-th enabled test of the
\* catalog order: i - 1 enabled tests come before it
IthEnabled(res) ==
    \A i \in 1..Len(res) :
        /\ config.eap_methods[res[i].name].enabled
        /\ Cardinality(EnabledBefore(res[i].name)) = i - 1
        /\ res[i] = status[res[i].name]

\* C21: in parallel mode, whatever order the workers finish in, the results
\* collected, returned and written to the report are in catalog order of
\* the enabled tests: the i-th entry is the result of the i-th enabled test,
\* as in a sequential run; a returned report has an entry for each.
C21_ParallelReportInCatalogOrder ==
    (mode = "parallel" /\ "eap_methods" \in DOMAIN config) =>
        /\ IthEnabled(results)
        /\ IthEnabled(ret)
        /\ RESULTS_FILE \in DOMAIN fs => IthEnabled(fs[RESULTS_FILE].json.tests)
        /\ mainPc \in {"returned", "exit0"} =>
              Len(ret) = Cardinality({u \in Methods :
                                        config.eap_methods[u].enabled})

\* a parallel run of tls and eap_fast in which the worker of eap_fast, the
\* second enabled test, has finished while tls is still inside run_test, and
\* the result of eap_fast has not been taken ahead of the result of tls
C21_Witness ==
    /\ mode = "parallel"
    /\ mainPc = "running"
    /\ enabled_tests = <<"tls", "eap_fast">>
    /\ pc["eap_fast"] = "returned"
    /\ spawned["eap_fast"] # <<>>
    /\ pc["tls"] = "running"
    /\ results = <<>>

====
